---- MODULE Spec2Model ----
(***************************************************************************)
(* A model of craft_planner.py: the State class (an OrderedDict of item    *)
(* quantities), the recipe compiler (make_checker, make_effector), the     *)
(* goal checker, the successor generator graph, the heuristic and the      *)
(* time-bounded best-first search with its path reconstruction.            *)
(*                                                                         *)
(* State objects live in a heap (a sequence of contents, an object's id is *)
(* its index), because the program passes references: the dictionaries and *)
(* the queue hold references to State objects, and effect works on a copy. *)
(* A State's content is its OrderedDict: a sequence of <<item, quantity>>  *)
(* pairs in insertion order.                                               *)
(***************************************************************************)
EXTENDS Integers, Sequences, FiniteSets, Bags, TLC

VARIABLES
    Crafting,        \* the loaded domain: Items, Initial, Goal, Recipes
    all_recipes,     \* the global list of compiled recipes
    hsel,            \* which heuristic function search was given
    limit,           \* the time budget search was given
    elapsed,         \* time() - start_time, in units of the budget
    heap,            \* the State objects: id -> OrderedDict content
    passed_states,   \* dict: State -> None or (past_state, past_action)
    costs,           \* dict: State -> cost
    steps,           \* dict: State -> path length
    queue,           \* the heap queue: a bag of <<priority, state id>>
    current_cost,    \* search's local current_cost
    current_state,   \* search's local current_state (id; 0 before the first pop)
    ridx,            \* position of graph's for loop in all_recipes
    path,            \* search's local path, the value returned on success
    pc,              \* where search is
    exc,             \* the exception that ended search ("" when none)
    calls            \* log of direct calls of check/effect/is_goal/graph

vars == <<Crafting, all_recipes, hsel, limit, elapsed, heap, passed_states, costs, steps,
          queue, current_cost, current_state, ridx, path, pc, exc, calls>>

----------------------------------------------------------------------------
(* Values *)

\* float('inf'): larger than every finite cost of the model; FAdd saturates.
inf == 1000000

FAdd(a, b) == IF a = inf \/ b = inf THEN inf ELSE a + b

None == <<>>

\* Python's order of the item names (str comparison): rank in the sorted list.
SortedNames ==
    <<"bench", "coal", "cobble", "ingot", "iron_axe", "iron_pickaxe", "ore",
      "plank", "stick", "stone_axe", "stone_pickaxe", "wood", "wooden_axe",
      "wooden_pickaxe">>

StrRank(name) == CHOOSE i \in 1..Len(SortedNames) : SortedNames[i] = name

Min(S) == CHOOSE x \in S : \A y \in S : x <= y

----------------------------------------------------------------------------
(* class State(OrderedDict) *)

\* key in state
HasKey(state, key) == \E i \in 1..Len(state) : state[i][1] = key

KeyIndex(state, key) == CHOOSE i \in 1..Len(state) : state[i][1] = key

\* state[key], for a key the state holds (OrderedDict raises KeyError otherwise)
GetItem(state, key) == state[KeyIndex(state, key)][2]

\* del state[key]; state[key] = value: the key moves to the end
SetItem_at_end(state, key, value) ==
    Append(SelectSeq(state, LAMBDA p : p[1] # key), <<key, value>>)

\* state[key] = value, for a key the state holds: the key keeps its position
SetItem(state, key, value) ==
    [state EXCEPT ![KeyIndex(state, key)] = <<key, value>>]

\* State.__key: tuple(self.items())
State_key(state) == state

\* State.__hash__: hash of the key tuple (equal tuples, equal hashes)
State_hash(state) == State_key(state)

\* OrderedDict.__eq__ between two OrderedDicts: same pairs in the same order
State_eq(a, b) ==
    /\ Len(a) = Len(b)
    /\ \A i \in 1..Len(a) : a[i][1] = b[i][1] /\ a[i][2] = b[i][2]

PairLess(p, q) ==
    \/ StrRank(p[1]) < StrRank(q[1])
    \/ p[1] = q[1] /\ p[2] < q[2]

\* State.__lt__: tuple comparison of the key tuples
State_lt(a, b) ==
    LET diff == {i \in 1..Len(a) : i > Len(b) \/ a[i] # b[i]}
    IN  IF diff = {} THEN Len(a) < Len(b)
        ELSE LET i == Min(diff) IN i <= Len(b) /\ PairLess(a[i], b[i])

\* State.copy without the copy: the same object is handed back.
State_copy_alias(h, id) == [heap |-> h, id |-> id]

\* State.copy: a new State object with the same pairs in the same order
State_copy(h, id) == [heap |-> Append(h, h[id]), id |-> Len(h) + 1]

----------------------------------------------------------------------------
(* make_checker *)

\* A rule is [sections, Requires, Consumes, Produces, Time]: sections holds the
\* names of the sections the rule dictionary has; Requires is the sequence of
\* its keys, Consumes and Produces are sequences of <<item, amount>>.

\* the loop over rule['Requires'] from position i: "True" when it ends,
\* "False" at the first falsy quantity, "KeyError" at the first absent key
RECURSIVE check_requires(_, _, _)
check_requires(rule, state, i) ==
    IF i > Len(rule.Requires) THEN "True"
    ELSE IF ~HasKey(state, rule.Requires[i]) THEN "KeyError"
    ELSE IF GetItem(state, rule.Requires[i]) = 0 THEN "False"
    ELSE check_requires(rule, state, i + 1)

\* the Consumes loop comparing with > instead of >=
RECURSIVE check_consumes_strict(_, _, _)
check_consumes_strict(rule, state, i) ==
    IF i > Len(rule.Consumes) THEN "True"
    ELSE IF ~HasKey(state, rule.Consumes[i][1]) THEN "KeyError"
    ELSE IF ~(GetItem(state, rule.Consumes[i][1]) > rule.Consumes[i][2]) THEN "False"
    ELSE check_consumes_strict(rule, state, i + 1)

\* the loop over rule['Consumes'] from position i
RECURSIVE check_consumes(_, _, _)
check_consumes(rule, state, i) ==
    IF i > Len(rule.Consumes) THEN "True"
    ELSE IF ~HasKey(state, rule.Consumes[i][1]) THEN "KeyError"
    ELSE IF ~(GetItem(state, rule.Consumes[i][1]) >= rule.Consumes[i][2]) THEN "False"
    ELSE check_consumes(rule, state, i + 1)

\* check without its Consumes section
check_no_consumes(rule, state) ==
    IF "Requires" \in rule.sections THEN check_requires(rule, state, 1) ELSE "True"

\* check(state) of the rule: "True", "False", or "KeyError" when it raises
check(rule, state) ==
    LET r == IF "Requires" \in rule.sections
             THEN check_requires(rule, state, 1) ELSE "True"
    IN  IF r # "True" THEN r
        ELSE IF "Consumes" \in rule.sections
             THEN check_consumes(rule, state, 1) ELSE "True"

----------------------------------------------------------------------------
(* make_effector *)

\* next_state[item] += sign * amount for each pair from position i on; the
\* result is [exc, state]: exc is "KeyError" when an item is absent
RECURSIVE effect_loop(_, _, _, _)
effect_loop(pairs, sign, state, i) ==
    IF i > Len(pairs) THEN [exc |-> "", state |-> state]
    ELSE IF ~HasKey(state, pairs[i][1]) THEN [exc |-> "KeyError", state |-> state]
    ELSE effect_loop(pairs, sign,
                     SetItem(state, pairs[i][1],
                             GetItem(state, pairs[i][1]) + sign * pairs[i][2]),
                     i + 1)

\* effect on the object `nid` of heap h: the two loops, writing the object
effect_body(rule, h, nid) ==
    LET c == IF "Consumes" \in rule.sections
             THEN effect_loop(rule.Consumes, -1, h[nid], 1)
             ELSE [exc |-> "", state |-> h[nid]]
        p == IF c.exc = "" /\ "Produces" \in rule.sections
             THEN effect_loop(rule.Produces, 1, c.state, 1)
             ELSE c
    IN  [exc |-> p.exc, heap |-> [h EXCEPT ![nid] = p.state], id |-> nid]

\* effect(state) of the rule, on the State object `id` of heap h:
\* [exc, heap, id], the heap after the call and the id of the returned State
effect(rule, h, id) ==
    effect_body(rule, State_copy(h, id).heap, State_copy(h, id).id)

----------------------------------------------------------------------------
(* make_goal_checker *)

\* A goal is a sequence of <<item, minimum>>.

\* the goal loop that stops after the first goal item
RECURSIVE is_goal_first_only(_, _, _)
is_goal_first_only(goal, state, i) ==
    IF i > Len(goal) \/ i > 1 THEN "True"
    ELSE IF ~HasKey(state, goal[i][1]) THEN "KeyError"
    ELSE IF GetItem(state, goal[i][1]) < goal[i][2] THEN "False"
    ELSE is_goal_first_only(goal, state, i + 1)

\* the loop over the goal from position i
RECURSIVE is_goal_loop(_, _, _)
is_goal_loop(goal, state, i) ==
    IF i > Len(goal) THEN "True"
    ELSE IF ~HasKey(state, goal[i][1]) THEN "KeyError"
    ELSE IF GetItem(state, goal[i][1]) < goal[i][2] THEN "False"
    ELSE is_goal_loop(goal, state, i + 1)

\* is_goal(state): "True", "False", or "KeyError" when it raises
is_goal(goal, state) == is_goal_loop(goal, state, 1)

----------------------------------------------------------------------------
(* graph *)

\* Recipe(name, check, effect, cost): check and effect are the closures
\* make_checker(rule) and make_effector(rule), kept as the rule itself.
Recipe(name, rule) == [name |-> name, rule |-> rule, cost |-> rule.Time]

\* One pass of graph's for loop, for the recipe r on the State object `id`:
\* [exc, yields, heap, name, id, cost]; yields says whether a triple comes out
graph_step(r, h, id) ==
    LET c == check(r.rule, h[id])
        e == effect(r.rule, h, id)
    IN  IF c = "KeyError"
        THEN [exc |-> "KeyError", yields |-> FALSE, heap |-> h,
              name |-> r.name, id |-> id, cost |-> r.cost]
        ELSE IF c = "False"
        THEN [exc |-> "", yields |-> FALSE, heap |-> h,
              name |-> r.name, id |-> id, cost |-> r.cost]
        ELSE [exc |-> e.exc, yields |-> e.exc = "", heap |-> e.heap,
              name |-> r.name, id |-> e.id, cost |-> r.cost]

\* graph with return for yield: the generator ends with its first triple.
RECURSIVE graph_first_only(_, _, _, _)
graph_first_only(recipes, h, id, i) ==
    IF i > Len(recipes) THEN [exc |-> "", heap |-> h, triples |-> <<>>]
    ELSE LET g == graph_step(recipes[i], h, id)
         IN  IF g.exc # "" THEN [exc |-> g.exc, heap |-> g.heap, triples |-> <<>>]
             ELSE IF g.yields
             THEN [exc |-> "", heap |-> g.heap,
                   triples |-> <<(<<g.name, g.id, g.cost>>)>>]
             ELSE graph_first_only(recipes, g.heap, id, i + 1)

\* list(graph(state)) over the recipes from position i on, with the heap
\* threaded through: [exc, heap, triples], a triple being <<name, id, cost>>
RECURSIVE graph(_, _, _, _)
graph(recipes, h, id, i) ==
    IF i > Len(recipes) THEN [exc |-> "", heap |-> h, triples |-> <<>>]
    ELSE LET g == graph_step(recipes[i], h, id)
         IN  IF g.exc # "" THEN [exc |-> g.exc, heap |-> g.heap, triples |-> <<>>]
             ELSE LET rest == graph(recipes, g.heap, id, i + 1)
                  IN  [exc |-> rest.exc, heap |-> rest.heap,
                       triples |-> IF g.yields
                                   THEN <<(<<g.name, g.id, g.cost>>)>> \o rest.triples
                                   ELSE rest.triples]

----------------------------------------------------------------------------
(* heuristic *)

ToolCaps ==
    <<(<<"bench", 1>>), <<"wooden_axe", 1>>, <<"wooden_pickaxe", 1>>,
      <<"stone_axe", 1>>, <<"stone_pickaxe", 1>>, <<"iron_axe", 1>>,
      <<"iron_pickaxe", 1>>>>

MaterialCaps ==
    <<(<<"plank", 8>>), <<"wood", 4>>, <<"ore", 12>>, <<"ingot", 12>>,
      <<"cobble", 8>>, <<"stick", 8>>, <<"coal", 12>>>>

\* state[k1] > c1 or state[k2] > c2 or ...: evaluated left to right
RECURSIVE any_over(_, _, _)
any_over(state, caps, i) ==
    IF i > Len(caps) THEN "False"
    ELSE IF ~HasKey(state, caps[i][1]) THEN "KeyError"
    ELSE IF GetItem(state, caps[i][1]) > caps[i][2] THEN "True"
    ELSE any_over(state, caps, i + 1)

\* Crafting['Recipes'][action_name]
RecipeRule(domain, action_name) ==
    LET i == CHOOSE j \in 1..Len(domain.Recipes) : domain.Recipes[j][1] = action_name
    IN  domain.Recipes[i][2]

\* heuristic(action_name, state): [exc, val]
heuristic(domain, action_name, state) ==
    LET tools == any_over(state, ToolCaps, 1)
        rule == RecipeRule(domain, action_name)
        req == IF "Requires" \in rule.sections
               THEN any_over(state, [i \in 1..Len(rule.Requires) |->
                                        <<rule.Requires[i], 1>>], 1)
               ELSE "False"
        mats == any_over(state, MaterialCaps, 1)
    IN  IF tools = "KeyError" THEN [exc |-> "KeyError", val |-> 0]
        ELSE IF tools = "True" THEN [exc |-> "", val |-> inf]
        ELSE IF req = "KeyError" THEN [exc |-> "KeyError", val |-> 0]
        ELSE IF req = "True" THEN [exc |-> "", val |-> inf]
        ELSE IF mats = "KeyError" THEN [exc |-> "KeyError", val |-> 0]
        ELSE IF mats = "True" THEN [exc |-> "", val |-> inf]
        ELSE [exc |-> "", val |-> 0]

\* A finite heuristic a caller may pass: what the goal still lacks.
RECURSIVE lacking(_, _, _)
lacking(goal, state, i) ==
    IF i > Len(goal) THEN 0
    ELSE (IF HasKey(state, goal[i][1]) /\ GetItem(state, goal[i][1]) < goal[i][2]
          THEN goal[i][2] - GetItem(state, goal[i][1]) ELSE 0)
         + lacking(goal, state, i + 1)

\* the heuristic argument of search, applied
Heuristic(sel, domain, action_name, state) ==
    IF sel = "zero" THEN [exc |-> "", val |-> 0]
    ELSE IF sel = "lacking" THEN [exc |-> "", val |-> lacking(domain.Goal, state, 1)]
    ELSE heuristic(domain, action_name, state)

----------------------------------------------------------------------------
(* The dictionaries of search, keyed by State objects *)

\* the keys of dictionary d that hash and compare equal to `state`
DictKeys(d, h, state) ==
    {k \in DOMAIN d : State_hash(h[k]) = State_hash(state) /\ State_eq(h[k], state)}

\* state in d
DictHas(d, h, state) == DictKeys(d, h, state) # {}

\* d[state]
DictGet(d, h, state) == d[CHOOSE k \in DictKeys(d, h, state) : TRUE]

\* d[state] = value, for the State object id: an equal key keeps its key object
DictSet(d, h, id, value) ==
    IF DictHas(d, h, h[id])
    THEN [d EXCEPT ![CHOOSE k \in DictKeys(d, h, h[id]) : TRUE] = value]
    ELSE d @@ (id :> value)

----------------------------------------------------------------------------
(* The queue of search: heappush and heappop on tuples (priority, state) *)

\* (p1, s1) < (p2, s2) as Python compares tuples
EntryLess(h, e1, e2) ==
    \/ e1[1] < e2[1]
    \/ /\ e1[1] = e2[1]
       /\ ~State_eq(h[e1[2]], h[e2[2]])
       /\ State_lt(h[e1[2]], h[e2[2]])

\* a pop that takes whichever entry, not the smallest
AnyEntries(q, h) == BagToSet(q)

\* the entries heappop may return: those no other entry is less than
MinEntries(q, h) ==
    {e \in BagToSet(q) : \A o \in BagToSet(q) : ~EntryLess(h, o, e)}

heappush(q, e) == q (+) SetToBag({e})

heapremove(q, e) == q (-) SetToBag({e})

----------------------------------------------------------------------------
(* search *)

\* The path without path.reverse(): from the goal back to the first step.
RECURSIVE reconstruct_unreversed(_, _, _, _)
reconstruct_unreversed(ps, h, cur, fuel) ==
    IF ~DictHas(ps, h, h[cur]) THEN [status |-> "KeyError", path |-> <<>>]
    ELSE LET entry == DictGet(ps, h, h[cur])
         IN  IF entry = None THEN [status |-> "ok", path |-> <<>>]
             ELSE IF fuel = 0 THEN [status |-> "diverges", path |-> <<>>]
             ELSE LET rest == reconstruct_unreversed(ps, h, entry[1], fuel - 1)
                  IN  [status |-> rest.status,
                       path |-> <<(<<cur, entry[2]>>)>> \o rest.path]

\* The loop of lines 164-167 from current_state `cur`, then path.reverse():
\* [status, path]; `fuel` bounds the walk by the number of dictionary keys.
RECURSIVE reconstruct(_, _, _, _)
reconstruct(ps, h, cur, fuel) ==
    IF ~DictHas(ps, h, h[cur]) THEN [status |-> "KeyError", path |-> <<>>]
    ELSE LET entry == DictGet(ps, h, h[cur])
         IN  IF entry = None THEN [status |-> "ok", path |-> <<>>]
             ELSE IF fuel = 0 THEN [status |-> "diverges", path |-> <<>>]
             ELSE LET rest == reconstruct(ps, h, entry[1], fuel - 1)
                  IN  [status |-> rest.status,
                       path |-> Append(rest.path, <<cur, entry[2]>>)]

\* The for loop's body without "or pathcost < costs[new_state]": a state is
\* recorded when first seen and never improved.
relax_first_only(sel, domain, h, ps, cs, st, q, ccost, cstate, new_name, nid, new_cost) ==
    LET pathcost == FAdd(ccost, new_cost)
        pathlen == DictGet(st, h, h[cstate]) + 1
        hv == Heuristic(sel, domain, new_name, h[nid])
    IN  IF DictHas(cs, h, h[nid])
        THEN [stored |-> FALSE, exc |-> "", costs |-> cs, steps |-> st,
              passed_states |-> ps, queue |-> q]
        ELSE [stored |-> TRUE,
              exc |-> hv.exc,
              costs |-> DictSet(cs, h, nid, pathcost),
              steps |-> DictSet(st, h, nid, pathlen),
              passed_states |->
                  DictSet(ps, h, nid, <<cstate, <<new_name, nid, new_cost>>>>),
              queue |-> IF hv.exc = ""
                        THEN heappush(q, <<FAdd(hv.val, pathcost), nid>>)
                        ELSE q]

\* The for loop's body with <= for <: an equal cost is recorded again.
relax_or_equal(sel, domain, h, ps, cs, st, q, ccost, cstate, new_name, nid, new_cost) ==
    LET pathcost == FAdd(ccost, new_cost)
        pathlen == DictGet(st, h, h[cstate]) + 1
        hv == Heuristic(sel, domain, new_name, h[nid])
    IN  IF DictHas(cs, h, h[nid]) /\ ~(pathcost <= DictGet(cs, h, h[nid]))
        THEN [stored |-> FALSE, exc |-> "", costs |-> cs, steps |-> st,
              passed_states |-> ps, queue |-> q]
        ELSE [stored |-> TRUE,
              exc |-> hv.exc,
              costs |-> DictSet(cs, h, nid, pathcost),
              steps |-> DictSet(st, h, nid, pathlen),
              passed_states |->
                  DictSet(ps, h, nid, <<cstate, <<new_name, nid, new_cost>>>>),
              queue |-> IF hv.exc = ""
                        THEN heappush(q, <<FAdd(hv.val, pathcost), nid>>)
                        ELSE q]

\* The body of the for loop, lines 171-177, for the triple (new_name, new_state,
\* new_cost) with new_state the object nid of heap h.
relax(sel, domain, h, ps, cs, st, q, ccost, cstate, new_name, nid, new_cost) ==
    LET pathcost == FAdd(ccost, new_cost)
        pathlen == DictGet(st, h, h[cstate]) + 1
        better == ~DictHas(cs, h, h[nid]) \/ pathcost < DictGet(cs, h, h[nid])
        hv == Heuristic(sel, domain, new_name, h[nid])
    IN  IF ~better
        THEN [stored |-> FALSE, exc |-> "", costs |-> cs, steps |-> st,
              passed_states |-> ps, queue |-> q]
        ELSE [stored |-> TRUE,
              exc |-> hv.exc,
              costs |-> DictSet(cs, h, nid, pathcost),
              steps |-> DictSet(st, h, nid, pathlen),
              passed_states |->
                  DictSet(ps, h, nid, <<cstate, <<new_name, nid, new_cost>>>>),
              queue |-> IF hv.exc = ""
                        THEN heappush(q, <<FAdd(hv.val, pathcost), nid>>)
                        ELSE q]

----------------------------------------------------------------------------
(* The domains search is run on *)

MaxWood == 3

Rule(req, con, pro, time) ==
    [sections |-> (IF req # <<>> THEN {"Requires"} ELSE {})
                  \cup (IF con # <<>> THEN {"Consumes"} ELSE {})
                  \cup (IF pro # <<>> THEN {"Produces"} ELSE {}),
     Requires |-> req, Consumes |-> con, Produces |-> pro, Time |-> time]

bench_from_wood ==
    <<"craft bench from wood",
      Rule(<<>>, <<(<<"wood", 2>>)>>, <<(<<"bench", 1>>)>>, 5)>>

craft_plank ==
    <<"craft plank", Rule(<<>>, <<(<<"wood", 1>>)>>, <<(<<"plank", 1>>)>>, 0)>>

craft_bench ==
    <<"craft bench", Rule(<<>>, <<(<<"plank", 2>>)>>, <<(<<"bench", 1>>)>>, 3)>>

craft_stick ==
    <<"craft stick",
      Rule(<<"bench">>, <<(<<"plank", 1>>)>>, <<(<<"stick", 2>>)>>, 1)>>

craft_wooden_axe ==
    <<"craft wooden_axe",
      Rule(<<>>, <<(<<"plank", 1>>)>>, <<(<<"wooden_axe", 1>>)>>, 2)>>

salvage_plank ==
    <<"salvage plank", Rule(<<>>, <<(<<"plank", 1>>)>>, <<(<<"wood", 1>>)>>, 0)>>

RecipeLists ==
    { <<bench_from_wood, craft_plank, craft_bench>>,
      <<craft_plank, salvage_plank, craft_bench>>,
      <<bench_from_wood, craft_plank, craft_bench, craft_stick>>,
      <<craft_plank, craft_wooden_axe>>,
      <<craft_plank, craft_bench, craft_stick, craft_wooden_axe>>,
      <<>> }

Initials ==
    {<<(<<"wood", n>>)>> : n \in 1..MaxWood}
        \cup {<<(<<"plank", 2>>), <<"wood", 2>>>>}

Goals ==
    { <<(<<"bench", 1>>)>>,
      <<(<<"stick", 2>>), <<"bench", 1>>>>,
      <<(<<"wooden_axe", 1>>)>>,
      <<(<<"coal", 1>>)>>,
      <<(<<"wood", 1>>)>>,
      <<>> }

Domains ==
    [Items : {SortedNames}, Initial : Initials, Goal : Goals, Recipes : RecipeLists]

Heuristics == {"zero", "heuristic", "lacking"}

Limits == {1, inf}

----------------------------------------------------------------------------
(* __main__ *)

\* lines 201-206: the rules compiled in the order of Crafting['Recipes']
compile(domain) ==
    [i \in 1..Len(domain.Recipes) |->
        Recipe(domain.Recipes[i][1], domain.Recipes[i][2])]

\* state.update(pairs) from position i on: a held key is overwritten in
\* place, a new key is appended
RECURSIVE update(_, _, _)
update(state, pairs, i) ==
    IF i > Len(pairs) THEN state
    ELSE update(IF HasKey(state, pairs[i][1])
                THEN SetItem(state, pairs[i][1], pairs[i][2])
                ELSE Append(state, pairs[i]),
                pairs, i + 1)

\* lines 212-213: every item at 0, then the initial inventory
InitialState(domain) ==
    update([i \in 1..Len(domain.Items) |-> <<domain.Items[i], 0>>],
           domain.Initial, 1)

----------------------------------------------------------------------------
(* The run of search(graph, state, is_goal, limit, heuristic) *)

Init ==
    /\ Crafting \in Domains
    /\ hsel \in Heuristics
    /\ limit \in Limits
    /\ elapsed = 0
    /\ all_recipes = compile(Crafting)
    /\ heap = <<InitialState(Crafting)>>
    /\ passed_states = (1 :> None)
    /\ costs = (1 :> 0)
    /\ steps = (1 :> 0)
    /\ queue = SetToBag({<<0, 1>>})
    /\ current_cost = 0
    /\ current_state = 0
    /\ ridx = 0
    /\ path = <<>>
    /\ pc = "loop"
    /\ exc = ""
    /\ calls = <<>>

MaxElapsed == 1

\* "while True": the loop test without the clock
TimeLeft_always(e, lim) == TRUE

\* line 158: time() - start_time < limit
TimeLeft(e, lim) == e < lim

\* the clock of time() moves on while search runs
Tick ==
    /\ pc \in {"loop", "pop", "goal", "expand"}
    /\ elapsed < MaxElapsed
    /\ elapsed' = elapsed + 1
    /\ UNCHANGED <<Crafting, all_recipes, hsel, limit, heap, passed_states, costs,
                   steps, queue, current_cost, current_state, ridx, path, pc, exc,
                   calls>>

\* line 158, the test holds
TimeRemains ==
    /\ pc = "loop"
    /\ TimeLeft(elapsed, limit)
    /\ pc' = "pop"
    /\ UNCHANGED <<Crafting, all_recipes, hsel, limit, elapsed, heap, passed_states,
                   costs, steps, queue, current_cost, current_state, ridx, path, exc,
                   calls>>

\* line 158, the test fails: lines 180-182, return None
TimeUp ==
    /\ pc = "loop"
    /\ ~TimeLeft(elapsed, limit)
    /\ pc' = "failed"
    /\ UNCHANGED <<Crafting, all_recipes, hsel, limit, elapsed, heap, passed_states,
                   costs, steps, queue, current_cost, current_state, ridx, path, exc,
                   calls>>

\* line 159: heappop raises IndexError on an empty list
Pop ==
    /\ pc = "pop"
    /\ IF queue = EmptyBag
       THEN /\ pc' = "raised"
            /\ exc' = "IndexError"
            /\ UNCHANGED <<queue, current_cost, current_state>>
       ELSE \E e \in MinEntries(queue, heap) :
                /\ queue' = heapremove(queue, e)
                /\ current_cost' = e[1]
                /\ current_state' = e[2]
                /\ pc' = "goal"
                /\ exc' = exc
    /\ UNCHANGED <<Crafting, all_recipes, hsel, limit, elapsed, heap, passed_states, costs,
                   steps, ridx, path, calls>>

\* lines 160-169: the goal test, and the path when it holds
GoalTest ==
    /\ pc = "goal"
    /\ LET g == is_goal(Crafting.Goal, heap[current_state])
           r == reconstruct(passed_states, heap, current_state,
                            Cardinality(DOMAIN passed_states))
       IN  IF g = "KeyError"
           THEN pc' = "raised" /\ exc' = "KeyError" /\ UNCHANGED <<path, ridx>>
           ELSE IF g = "True"
           THEN IF r.status = "ok"
                THEN pc' = "returned" /\ path' = r.path /\ UNCHANGED <<exc, ridx>>
                ELSE IF r.status = "KeyError"
                THEN pc' = "raised" /\ exc' = "KeyError" /\ UNCHANGED <<path, ridx>>
                ELSE pc' = "diverged" /\ UNCHANGED <<exc, path, ridx>>
           ELSE /\ IF Len(all_recipes) = 0
                   THEN pc' = "loop" /\ ridx' = 0
                   ELSE pc' = "expand" /\ ridx' = 1
                /\ UNCHANGED <<exc, path>>
    /\ UNCHANGED <<Crafting, all_recipes, hsel, limit, elapsed, heap, passed_states, costs,
                   steps, queue, current_cost, current_state, calls>>

\* lines 170-177 for one recipe of graph's loop (lines 97-99)
Expand ==
    /\ pc = "expand"
    /\ LET g == graph_step(all_recipes[ridx], heap, current_state)
           x == relax(hsel, Crafting, g.heap, passed_states, costs, steps, queue,
                      current_cost, current_state, g.name, g.id, g.cost)
           last == ridx = Len(all_recipes)
       IN  IF g.exc # ""
           THEN /\ pc' = "raised" /\ exc' = g.exc
                /\ heap' = SubSeq(g.heap, 1, Len(heap))
                /\ UNCHANGED <<passed_states, costs, steps, queue, ridx>>
           ELSE IF ~g.yields
           THEN /\ pc' = (IF last THEN "loop" ELSE "expand")
                /\ ridx' = (IF last THEN 0 ELSE ridx + 1)
                /\ UNCHANGED <<heap, passed_states, costs, steps, queue, exc>>
           ELSE /\ heap' = (IF x.stored THEN g.heap ELSE SubSeq(g.heap, 1, Len(heap)))
                /\ passed_states' = x.passed_states
                /\ costs' = x.costs
                /\ steps' = x.steps
                /\ queue' = x.queue
                /\ IF x.exc # ""
                   THEN pc' = "raised" /\ exc' = x.exc /\ ridx' = ridx
                   ELSE /\ pc' = (IF last THEN "loop" ELSE "expand")
                        /\ ridx' = (IF last THEN 0 ELSE ridx + 1)
                        /\ exc' = exc
    /\ UNCHANGED <<Crafting, all_recipes, hsel, limit, elapsed, current_cost, current_state,
                   path, calls>>

Next == Tick \/ TimeRemains \/ TimeUp \/ Pop \/ GoalTest \/ Expand

Spec == Init /\ [][Next]_vars

----------------------------------------------------------------------------
(* Direct calls of check, effect, is_goal and graph on one State *)

MaxQty == 2

MaxAmt == 2

MaxCalls == 2

FnItems == {"bench", "wood"}

\* the key orders a State over FnItems can have
FnKeySeqs ==
    {<<>>} \cup {<<k>> : k \in FnItems}
           \cup {<<k, l>> : <<k, l>> \in {kl \in FnItems \X FnItems : kl[1] # kl[2]}}

\* OrderedDicts over the key sequence ks with values from vals
PairSeqs(ks, vals) ==
    {[i \in 1..Len(ks) |-> <<ks[i], q[i]>>] : q \in [1..Len(ks) -> vals]}

FnStates == UNION {PairSeqs(ks, 0..MaxQty) : ks \in FnKeySeqs}

FnAmounts == UNION {PairSeqs(ks, 1..MaxAmt) : ks \in FnKeySeqs}

FnRules ==
    {r \in [sections : SUBSET {"Requires", "Consumes", "Produces"},
            Requires : FnKeySeqs, Consumes : FnAmounts,
            Produces : {a \in FnAmounts : Len(a) <= 1}, Time : {1}] :
        /\ "Requires" \notin r.sections => r.Requires = <<>>
        /\ "Consumes" \notin r.sections => r.Consumes = <<>>
        /\ "Produces" \notin r.sections => r.Produces = <<>>}

FnGoals == FnAmounts

\* the rules the recipe lists of direct graph calls are made of
FnListRules ==
    {r \in FnRules :
        /\ Len(r.Requires) <= 1 /\ Len(r.Consumes) <= 1 /\ Len(r.Produces) <= 1
        /\ \A i \in 1..Len(r.Consumes) : r.Consumes[i][2] = 1
        /\ \A i \in 1..Len(r.Produces) : r.Produces[i][2] = 1
        /\ ("Requires" \in r.sections => r.Requires # <<>>)
        /\ ("Consumes" \in r.sections => r.Consumes # <<>>)
        /\ ("Produces" \in r.sections => r.Produces # <<>>)}

FnRecipeLists ==
    {<<>>} \cup {<<Recipe("first", r)>> : r \in FnListRules}
           \cup {<<Recipe("first", r), Recipe("second", t)>> :
                    <<r, t>> \in FnListRules \X FnListRules}

NoDomain == [Items |-> <<>>, Initial |-> <<>>, Goal |-> <<>>, Recipes |-> <<>>]

FnInit ==
    /\ Crafting = NoDomain
    /\ hsel = "zero"
    /\ limit = inf
    /\ elapsed = 0
    /\ all_recipes = <<>>
    /\ heap \in {<<s>> : s \in FnStates}
    /\ passed_states = <<>>
    /\ costs = <<>>
    /\ steps = <<>>
    /\ queue = EmptyBag
    /\ current_cost = 0
    /\ current_state = 0
    /\ ridx = 0
    /\ path = <<>>
    /\ pc = "call"
    /\ exc = ""
    /\ calls = <<>>

\* the inputs a call of `op` may get: any of S at first, and a further call
\* repeats the first call's function and input
Inputs(op, S) ==
    IF pc # "call" \/ Len(calls) >= MaxCalls THEN {}
    ELSE IF calls = <<>> THEN S
    ELSE IF calls[1].op = op THEN {calls[1].input}
    ELSE {}

\* r.check(state) on the State object 1
FnCheck ==
    /\ \E rule \in Inputs("check", FnRules) :
          /\ calls' = Append(calls, [op |-> "check", input |-> rule,
                                     res |-> check(rule, heap[1]), ret |-> <<>>])
    /\ UNCHANGED <<Crafting, all_recipes, hsel, limit, elapsed, heap, passed_states, costs,
                   steps, queue, current_cost, current_state, ridx, path, pc, exc>>

\* r.effect(state) on the State object 1; ret is the returned State
FnEffect ==
    /\ \E rule \in Inputs("effect", FnRules) :
          /\ LET e == effect(rule, heap, 1)
             IN  /\ heap' = e.heap
                 /\ calls' = Append(calls,
                        [op |-> "effect", input |-> rule,
                         res |-> IF e.exc = "" THEN "returned" ELSE e.exc,
                         ret |-> IF e.exc = "" THEN e.heap[e.id] ELSE <<>>])
    /\ UNCHANGED <<Crafting, all_recipes, hsel, limit, elapsed, passed_states, costs,
                   steps, queue, current_cost, current_state, ridx, path, pc, exc>>

\* is_goal(state) on the State object 1
FnIsGoal ==
    /\ \E goal \in Inputs("is_goal", FnGoals) :
          /\ calls' = Append(calls, [op |-> "is_goal", input |-> goal,
                                     res |-> is_goal(goal, heap[1]), ret |-> <<>>])
    /\ UNCHANGED <<Crafting, all_recipes, hsel, limit, elapsed, heap, passed_states, costs,
                   steps, queue, current_cost, current_state, ridx, path, pc, exc>>

\* list(graph(state)) on the State object 1, with all_recipes the given list;
\* ret holds the triples with the yielded States by content
FnGraph ==
    /\ \E recipes \in Inputs("graph", FnRecipeLists) :
          /\ LET g == graph(recipes, heap, 1, 1)
             IN  /\ all_recipes' = recipes
                 /\ heap' = g.heap
                 /\ calls' = Append(calls,
                        [op |-> "graph", input |-> recipes,
                         res |-> IF g.exc = "" THEN "returned" ELSE g.exc,
                         ret |-> [i \in 1..Len(g.triples) |->
                                     <<g.triples[i][1], g.heap[g.triples[i][2]],
                                       g.triples[i][3]>>]])
    /\ UNCHANGED <<Crafting, hsel, limit, elapsed, passed_states, costs,
                   steps, queue, current_cost, current_state, ridx, path, pc, exc>>

\* other == state, hash(other) == hash(state) and other in {state: 0}, for the
\* State object 1 and a State built apart from it; ret holds the dict lookup
FnCompare ==
    /\ \E other \in Inputs("compare", FnStates) :
          /\ calls' = Append(calls,
                 [op |-> "compare", input |-> other,
                  res |-> IF /\ State_hash(other) = State_hash(heap[1])
                             /\ State_eq(other, heap[1])
                          THEN "True" ELSE "False",
                  ret |-> <<IF DictHas((1 :> 0), heap, other)
                            THEN "True" ELSE "False">>])
    /\ UNCHANGED <<Crafting, all_recipes, hsel, limit, elapsed, heap, passed_states, costs,
                   steps, queue, current_cost, current_state, ridx, path, pc, exc>>

FnNext == FnCheck \/ FnEffect \/ FnIsGoal \/ FnGraph \/ FnCompare

SpecFn == FnInit /\ [][FnNext]_vars

\* search and the direct calls together
AllInit == Init \/ FnInit

AllNext == Next \/ FnNext

SpecAll == AllInit /\ [][AllNext]_vars

----------------------------------------------------------------------------
(* What the claims speak of *)

\* the quantity of an item in a State content, an absent item counting as 0
Qty(state, item) == IF HasKey(state, item) THEN GetItem(state, item) ELSE 0

NonNegative(state) == \A i \in 1..Len(state) : state[i][2] >= 0

\* the State a recipe leads to from the content s
Applied(rule, s) ==
    LET e == effect(rule, <<s>>, 1) IN e.heap[e.id]

Applicable(rule, s) ==
    check(rule, s) = "True" /\ effect(rule, <<s>>, 1).exc = ""

\* the contents reachable from the contents in `frontier` by the recipes
RECURSIVE Reachable(_, _, _)
Reachable(recipes, frontier, seen) ==
    LET next == {Applied(recipes[i].rule, s) :
                    <<i, s>> \in {is \in (1..Len(recipes)) \X frontier :
                                     Applicable(recipes[is[1]].rule, is[2])}}
                \ (seen \cup frontier)
    IN  IF frontier = {} THEN seen
        ELSE Reachable(recipes, next, seen \cup frontier)

\* one round of relaxing every edge of the graph over the contents in S
Round(recipes, S, d) ==
    [t \in S |->
        Min({d[t]} \cup
            {FAdd(d[s], recipes[i].cost) :
                <<i, s>> \in {is \in (1..Len(recipes)) \X S :
                                 /\ Applicable(recipes[is[1]].rule, is[2])
                                 /\ Applied(recipes[is[1]].rule, is[2]) = t}})]

RECURSIVE Distances(_, _, _, _)
Distances(recipes, S, d, rounds) ==
    IF rounds = 0 THEN d
    ELSE LET n == Round(recipes, S, d)
         IN  IF n = d THEN d ELSE Distances(recipes, S, n, rounds - 1)

\* the least total cost of an action sequence from `init` to a goal state
\* (inf when no goal state can be reached)
MinGoalCost(recipes, goal, init) ==
    LET S == Reachable(recipes, {init}, {})
        d == Distances(recipes, S, [s \in S |-> IF s = init THEN 0 ELSE inf],
                       Cardinality(S))
    IN  Min({inf} \cup {d[s] : s \in {t \in S : is_goal(goal, t) = "True"}})

RECURSIVE PlanCost(_, _)
PlanCost(plan, i) ==
    IF i > Len(plan) THEN 0 ELSE plan[i][2][3] + PlanCost(plan, i + 1)

\* the recipes of the list with the given name
Named(recipes, name) ==
    {recipes[i] : i \in {j \in 1..Len(recipes) : recipes[j].name = name}}

\* C1: with the zero heuristic, a returned plan's cost is the least cost of
\* any action sequence from the initial state to a goal state.
C1_ZeroHeuristicOptimal ==
    (pc = "returned" /\ hsel = "zero") =>
        PlanCost(path, 1) =
            MinGoalCost(all_recipes, Crafting.Goal, InitialState(Crafting))

\* a plan was returned under the zero heuristic while a costlier entry for the
\* same goal state is still queued
C1_Witness ==
    /\ pc = "returned" /\ hsel = "zero" /\ Len(path) >= 2
    /\ \E e \in BagToSet(queue) :
          State_eq(heap[e[2]], heap[current_state]) /\ e[1] > current_cost

\* C2: search ends by returning a plan or None and never raises.
C2_NeverRaises == pc # "raised"

\* the step-by-step validity of a plan from the content `init`
ValidPlan(recipes, goal, h, init, plan) ==
    /\ \A i \in 1..Len(plan) :
          LET prev == IF i = 1 THEN init ELSE h[plan[i - 1][1]]
              action == plan[i][2]
          IN  /\ State_eq(h[action[2]], h[plan[i][1]])
              /\ \E r \in Named(recipes, action[1]) :
                    /\ check(r.rule, prev) = "True"
                    /\ Applied(r.rule, prev) = h[plan[i][1]]
                    /\ action[3] = r.cost
    /\ is_goal(goal, IF plan = <<>> THEN init ELSE h[plan[Len(plan)][1]]) = "True"

\* C3: a returned plan is a valid execution from the initial state that ends
\* in a goal state, each action descriptor matching its step.
C3_PlanIsValid ==
    pc = "returned" =>
        ValidPlan(all_recipes, Crafting.Goal, heap, InitialState(Crafting), path)

C3_Witness == pc = "returned" /\ Len(path) >= 3

\* C4: a returned plan holds at least one (state, action) pair.
C4_PlanNonEmpty == pc = "returned" => Len(path) >= 1

\* the popped entry's cost is above the best-known cost of its state
StalePop ==
    /\ pc = "goal" /\ hsel = "zero"
    /\ current_cost > DictGet(costs, heap, heap[current_state])

\* C5: a popped stale entry is discarded: the next step is back at the top of
\* the loop, with no goal test passed and no successor generated.
C5_StaleDiscarded ==
    [][StalePop => (pc' = "loop" /\ UNCHANGED <<heap, passed_states, costs, steps, queue, path>>)]_vars

\* what the rule asks of the content s
RuleHolds(rule, s) ==
    /\ \A i \in 1..Len(rule.Requires) : Qty(s, rule.Requires[i]) > 0
    /\ \A i \in 1..Len(rule.Consumes) : Qty(s, rule.Consumes[i][1]) >= rule.Consumes[i][2]

\* every item the rule's Requires and Consumes sections name is a key of s
RuleKeysHeld(rule, s) ==
    /\ \A i \in 1..Len(rule.Requires) : HasKey(s, rule.Requires[i])
    /\ \A i \in 1..Len(rule.Consumes) : HasKey(s, rule.Consumes[i][1])

BoolStr(b) == IF b THEN "True" ELSE "False"

\* C6: check returns true exactly when every required item is held in a
\* positive quantity and every consumed item in at least its amount; on a
\* state holding the named items it returns false in every other case.
C6_CheckIff ==
    \A i \in 1..Len(calls) :
        calls[i].op = "check" =>
            /\ calls[i].res = "True" <=> RuleHolds(calls[i].input, heap[1])
            /\ RuleKeysHeld(calls[i].input, heap[1]) =>
                   calls[i].res = BoolStr(RuleHolds(calls[i].input, heap[1]))

\* check passed a rule with both sections; and check refused a rule whose
\* requirement is met but whose consumed item is short
C6_Witness ==
    /\ Len(calls) >= 1 /\ calls[1].op = "check"
    /\ calls[1].input.Requires # <<>> /\ calls[1].input.Consumes # <<>>
    /\ RuleKeysHeld(calls[1].input, heap[1])
    /\ \A i \in 1..Len(calls[1].input.Requires) :
          Qty(heap[1], calls[1].input.Requires[i]) > 0
    /\ calls[1].res = "False"

\* C7: no State of a search holds a negative quantity, and effect applied
\* where check holds yields none.
C7_NoNegativeQuantity ==
    /\ pc # "call" =>
          /\ \A id \in 1..Len(heap) : NonNegative(heap[id])
          /\ \A id \in 1..Len(heap) : \A i \in 1..Len(all_recipes) :
                Applicable(all_recipes[i].rule, heap[id]) =>
                    NonNegative(Applied(all_recipes[i].rule, heap[id]))
    /\ \A i \in 1..Len(calls) :
          (/\ calls[i].op = "effect" /\ calls[i].res = "returned"
           /\ check(calls[i].input, heap[1]) = "True") =>
              NonNegative(calls[i].ret)

\* a stored State that a consumption brought down to no wood
C7_Witness ==
    /\ pc = "expand"
    /\ \E k \in DOMAIN costs : k > 1 /\ Qty(heap[k], "wood") = 0 /\ Qty(heap[1], "wood") > 0

GoalHolds(goal, s) == \A i \in 1..Len(goal) : Qty(s, goal[i][1]) >= goal[i][2]

GoalKeysHeld(goal, s) == \A i \in 1..Len(goal) : HasKey(s, goal[i][1])

\* C8: an absent item counts as 0 in check, is_goal and effect; none raises.
C8_AbsentItemIsZero ==
    \A i \in 1..Len(calls) :
        /\ calls[i].op = "check" =>
               calls[i].res = BoolStr(RuleHolds(calls[i].input, heap[1]))
        /\ calls[i].op = "is_goal" =>
               calls[i].res = BoolStr(GoalHolds(calls[i].input, heap[1]))
        /\ calls[i].op = "effect" => calls[i].res = "returned"

\* the triples of list(graph(state)) by content
Triples(g) ==
    [i \in 1..Len(g.triples) |->
        <<g.triples[i][1], g.heap[g.triples[i][2]], g.triples[i][3]>>]

\* graph called twice on the current state yields equal triples
GraphTwice ==
    pc = "expand" =>
        LET g1 == graph(all_recipes, heap, current_state, 1)
            g2 == graph(all_recipes, g1.heap, current_state, 1)
        IN  g1.exc = g2.exc /\ Triples(g1) = Triples(g2)

\* a repeated direct call gives what the first call gave
RepeatSame ==
    \A i \in 1..Len(calls') :
        calls'[i].res = calls'[1].res /\ calls'[i].ret = calls'[1].ret

\* C9: no step modifies a State object that exists: the state given to effect
\* and graph, and every State stored in a dictionary or the queue, keeps its
\* quantities; graph called again on the same state yields equal triples.
C9_StatesNeverModified ==
    [][/\ \A id \in 1..Len(heap) : id <= Len(heap') /\ heap'[id] = heap[id]
       /\ GraphTwice
       /\ RepeatSame]_vars

\* a successor of the state being expanded has been stored while the for loop
\* goes on with that state
C9_Witness ==
    /\ pc = "expand" /\ ridx > 1
    /\ \E k \in DOMAIN passed_states :
          passed_states[k] # None /\ passed_states[k][1] = current_state

\* the contents agree on every item the goal names
AgreeOn(goal, s, t) ==
    \A i \in 1..Len(goal) :
        /\ HasKey(s, goal[i][1]) <=> HasKey(t, goal[i][1])
        /\ Qty(s, goal[i][1]) = Qty(t, goal[i][1])

\* C10: is_goal is true exactly when every goal item is held in at least its
\* minimum; states that agree on the goal's items get the same result.
C10_IsGoalIff ==
    \A i \in 1..Len(calls) :
        calls[i].op = "is_goal" =>
            /\ calls[i].res = "True" <=> GoalHolds(calls[i].input, heap[1])
            /\ GoalKeysHeld(calls[i].input, heap[1]) =>
                   calls[i].res = BoolStr(GoalHolds(calls[i].input, heap[1]))
            /\ \A t \in FnStates :
                   AgreeOn(calls[i].input, heap[1], t) =>
                       is_goal(calls[i].input, t) = calls[i].res

\* is_goal accepted a state for a goal of two items
C10_Witness ==
    /\ Len(calls) >= 1 /\ calls[1].op = "is_goal"
    /\ Len(calls[1].input) = 2 /\ calls[1].res = "True"

\* C11: the budget is tested at the top of each iteration only: an entry is
\* popped only after a test that found time left, None is returned only by a
\* test that found the budget used up, and a started iteration is not ended
\* by the clock.
C11_BudgetTestedAtLoopTop ==
    [][/\ (pc' = "pop" /\ pc # "pop") => (pc = "loop" /\ elapsed < limit)
       /\ (pc = "loop" /\ ~(elapsed < limit)) =>
              (pc' \in {"loop", "failed"}
               /\ UNCHANGED <<heap, passed_states, costs, steps, queue, path>>)
       /\ (pc' = "failed" /\ pc # "failed") => (pc = "loop" /\ ~(elapsed < limit))
       /\ (pc \in {"pop", "goal", "expand"} /\ ~(elapsed < limit)) =>
              pc' \in {"pop", "goal", "expand", "loop", "returned", "raised"}]_vars

\* None was returned with entries still queued, after at least one iteration
C11_Witness ==
    /\ pc = "failed" /\ ~(elapsed < limit)
    /\ current_state # 0 /\ queue # EmptyBag

\* the two States hold the same item -> quantity pairs, in whatever order
SameItems(a, b) ==
    /\ Len(a) = Len(b)
    /\ {a[i] : i \in 1..Len(a)} = {b[i] : i \in 1..Len(b)}

\* C12: two States holding the same item -> quantity pairs are equal, hash
\* alike and are one key of a dict, whatever order their keys were inserted in.
C12_OrderIndependentIdentity ==
    \A i \in 1..Len(calls) :
        (calls[i].op = "compare" /\ SameItems(calls[i].input, heap[1])) =>
            (calls[i].res = "True" /\ calls[i].ret = <<"True">>)

\* one more action on every action sequence counted so far
PathRound(recipes, S, p) ==
    [t \in S |->
        p[t] \cup
        UNION {{c + recipes[is[1]].cost : c \in p[is[2]]} :
                  is \in {js \in (1..Len(recipes)) \X S :
                             /\ Applicable(recipes[js[1]].rule, js[2])
                             /\ Applied(recipes[js[1]].rule, js[2]) = t}}]

RECURSIVE PathCostSets(_, _, _, _)
PathCostSets(recipes, S, p, rounds) ==
    IF rounds = 0 THEN p
    ELSE LET n == PathRound(recipes, S, p)
         IN  IF n = p THEN p ELSE PathCostSets(recipes, S, n, rounds - 1)

\* for each reachable content, the total costs of the action sequences that
\* lead to it from `init`
PathCosts(recipes, init) ==
    LET S == Reachable(recipes, {init}, {})
    IN  PathCostSets(recipes, S, [s \in S |-> IF s = init THEN {0} ELSE {}],
                     Cardinality(S))

\* C13: under a finite non-negative heuristic the cost recorded for a state is
\* the summed recipe cost of some action sequence from the initial state to it;
\* no heuristic value is part of it (looked at between iterations and at the end).
C13_RecordedCostIsPathCost ==
    (pc \in {"loop", "returned", "failed", "raised"}
     /\ hsel \in {"zero", "lacking"}) =>
        LET p == PathCosts(all_recipes, heap[1])
        IN  \A k \in DOMAIN costs : costs[k] \in p[heap[k]]

\* the keys of the dict d whose State has the content s
KeysOf(d, h, s) == {k \in DOMAIN d : h[k] = s}

\* C14: the for loop's body records and pushes a successor exactly when it has
\* no recorded cost or the candidate cost is strictly lower; otherwise the maps
\* and the queue stay as they are.  No recorded cost ever rises and no
\* discovered state is ever dropped.
C14_RelaxationRule ==
    [][/\ \A k \in DOMAIN costs :
             /\ k \in DOMAIN costs' /\ k \in DOMAIN steps'
             /\ k \in DOMAIN passed_states'
             /\ heap'[k] = heap[k]
             /\ costs'[k] <= costs[k]
       /\ (pc = "expand" /\ elapsed' = elapsed) =>
             LET r == all_recipes[ridx]
                 cur == heap[current_state]
                 ns == Applied(r.rule, cur)
                 cand == FAdd(current_cost, r.cost)
                 old == KeysOf(costs, heap, ns)
                 lower == old = {} \/ \E k \in old : cand < costs[k]
                 new == KeysOf(costs', heap', ns)
             IN  IF Applicable(r.rule, cur) /\ lower
                 THEN /\ Cardinality(new) = 1
                      /\ \A k \in new :
                            /\ costs'[k] = cand
                            /\ \E j \in KeysOf(steps, heap, cur) :
                                  steps'[k] = steps[j] + 1
                            /\ passed_states'[k][1] = current_state
                            /\ passed_states'[k][2][1] = r.name
                            /\ passed_states'[k][2][3] = r.cost
                      /\ \A k \in DOMAIN costs \ new :
                            /\ costs'[k] = costs[k] /\ steps'[k] = steps[k]
                            /\ passed_states'[k] = passed_states[k]
                      /\ DOMAIN costs' = DOMAIN costs \cup new
                      /\ \E e \in BagToSet(queue') :
                            /\ heap'[e[2]] = ns
                            /\ queue' = queue (+) SetToBag({e})
                 ELSE UNCHANGED <<costs, steps, passed_states, queue>>]_vars

\* a state's recorded cost was lowered: the entry of its dearer path is still
\* queued beside the entry of the recorded one
C14_Witness ==
    \E e1 \in BagToSet(queue) : \E e2 \in BagToSet(queue) :
        /\ e1[1] < e2[1]
        /\ heap[e1[2]] = heap[e2[2]]
        /\ \E k \in KeysOf(costs, heap, heap[e1[2]]) : costs[k] < e2[1]

\* C15: when a plan is returned the step count recorded for the goal state
\* is the number of pairs of the plan and the cost recorded for it is the sum
\* of the plan's action costs, whatever the heuristic.
C15_StatisticsMatchPlan ==
    pc = "returned" =>
        /\ DictGet(steps, heap, heap[current_state]) = Len(path)
        /\ DictGet(costs, heap, heap[current_state]) = PlanCost(path, 1)

\* every item a section of the rule names is a key of s
AllKeysHeld(rule, s) ==
    /\ RuleKeysHeld(rule, s)
    /\ \A i \in 1..Len(rule.Produces) : HasKey(s, rule.Produces[i][1])

\* one triple for each recipe from position i on whose condition holds in s
RECURSIVE PassingTriples(_, _, _)
PassingTriples(recipes, s, i) ==
    IF i > Len(recipes) THEN <<>>
    ELSE (IF RuleHolds(recipes[i].rule, s)
          THEN <<(<<recipes[i].name, Applied(recipes[i].rule, s), recipes[i].cost>>)>>
          ELSE <<>>) \o PassingTriples(recipes, s, i + 1)

\* C16: graph(state) yields, in the order of the recipe list, one triple
\* (name, effect(state), cost) for each recipe whose check holds in the state
\* and nothing for the others; it yields them all when the state has a key
\* for every item the recipes name.
C16_GraphYieldsPassingRecipes ==
    \A i \in 1..Len(calls) :
        calls[i].op = "graph" =>
            /\ calls[i].res = "returned" =>
                   calls[i].ret = PassingTriples(calls[i].input, heap[1], 1)
            /\ (\A j \in 1..Len(calls[i].input) :
                    AllKeysHeld(calls[i].input[j].rule, heap[1])) =>
                   calls[i].res = "returned"

\* of two recipes the first fails and the second passes, or both pass
C16_Witness ==
    /\ calls # <<>> /\ calls[1].op = "graph" /\ calls[1].res = "returned"
    /\ Len(calls[1].input) = 2
    /\ ~RuleHolds(calls[1].input[1].rule, heap[1])
    /\ calls[1].ret # <<>> /\ calls[1].ret[1][1] = "second"

\* following the predecessor links from the key k of passed_states ends at
\* the entry None of the initial state within `fuel` links
RECURSIVE ReachesRoot(_, _)
ReachesRoot(k, fuel) ==
    IF passed_states[k] = None THEN heap[k] = heap[1]
    ELSE /\ fuel > 0
         /\ \E j \in KeysOf(passed_states, heap, heap[passed_states[k][1]]) :
               ReachesRoot(j, fuel - 1)

\* C17: the predecessor map is acyclic and rooted at the initial state: the
\* initial state's entry stays None, the links from every discovered state
\* lead to the initial state in finitely many steps, and the while loop of
\* the path reconstruction ends.
C17_PredecessorsRooted ==
    pc \in {"loop", "pop", "goal", "expand", "returned", "failed", "raised", "diverged"} =>
        /\ KeysOf(passed_states, heap, heap[1]) = {1}
        /\ passed_states[1] = None
        /\ \A k \in DOMAIN passed_states :
              ReachesRoot(k, Cardinality(DOMAIN passed_states))
        /\ pc # "diverged"

\* a plan of several steps was reconstructed in a domain whose graph has a
\* cycle (planks can be turned back into wood)
C17_Witness ==
    /\ pc = "returned" /\ Len(path) >= 2
    /\ \E i \in 1..Len(all_recipes) : all_recipes[i].name = "salvage plank"

\* the entry pushed for the recorded cost of the key k has been popped and
\* its State is not the one waiting for the goal test: k has been expanded
\* (or is being expanded) at its recorded cost
Expanded(k) ==
    /\ \A e \in BagToSet(queue) : heap[e[2]] = heap[k] => e[1] # costs[k]
    /\ ~(pc = "goal" /\ heap[current_state] = heap[k])

\* C18: with the zero heuristic the popped costs never go down, the maps'
\* entries of a state that was popped and expanded never change again, and
\* the expansion of a stale entry changes no map.
C18_PoppedCostsNonDecreasing ==
    [][hsel = "zero" =>
          /\ (pc = "pop" /\ pc' = "goal") => current_cost' >= current_cost
          /\ \A k \in DOMAIN costs :
                Expanded(k) =>
                    /\ costs'[k] = costs[k]
                    /\ steps'[k] = steps[k]
                    /\ passed_states'[k] = passed_states[k]
          /\ (pc = "expand"
              /\ \E k \in KeysOf(costs, heap, heap[current_state]) :
                    costs[k] < current_cost) =>
                 UNCHANGED <<costs, steps, passed_states, queue>>]_vars

\* under the zero heuristic a stale entry has been popped and its state is
\* expanded again, after pops of lower cost
C18_Witness ==
    /\ hsel = "zero" /\ pc = "expand" /\ ridx > 1
    /\ \E k \in KeysOf(costs, heap, heap[current_state]) :
          0 < costs[k] /\ costs[k] < current_cost

\* the keys of a State in insertion order
KeySeq(state) == [i \in 1..Len(state) |-> state[i][1]]

\* the quantities of a and b agree item by item
SameQuantities(a, b) ==
    {a[i] : i \in 1..Len(a)} = {b[i] : i \in 1..Len(b)}

\* C19: every State of a search has the keys of the initial State in the
\* same order, and two of them are equal with equal hashes, and neither is
\* less than the other, exactly when their quantities agree item by item.
C19_SameKeysSameOrder ==
    pc \in {"loop", "pop", "goal", "expand", "returned", "failed", "raised"} =>
        /\ \A a \in 1..Len(heap) : KeySeq(heap[a]) = KeySeq(heap[1])
        /\ \A a \in 1..Len(heap) : \A b \in a..Len(heap) :
              /\ (State_eq(heap[a], heap[b])
                  /\ State_hash(heap[a]) = State_hash(heap[b]))
                 <=> SameQuantities(heap[a], heap[b])
              /\ (~State_lt(heap[a], heap[b]) /\ ~State_lt(heap[b], heap[a]))
                 <=> SameQuantities(heap[a], heap[b])

\* the search holds two State objects of the same quantities (a state found
\* again by a cheaper path) beside States of other quantities
C19_Witness ==
    /\ pc \in {"loop", "pop", "goal", "expand"}
    /\ \E a \in 1..Len(heap) : \E b \in 1..Len(heap) :
          a # b /\ SameQuantities(heap[a], heap[b])
    /\ \E a \in 1..Len(heap) : ~SameQuantities(heap[a], heap[1])

====
